---- MODULE Spec2Model ----
(***************************************************************************)
(* A model of the evaluator gateway (RacketProcess), of the commands that  *)
(* drive it (forge.runFile, forge.stopRun, forge.continueRun, deactivate)  *)
(* and of the hint generator's evaluation wrapper                          *)
(* (runTestsAgainstModel / runTestsAgainstModelWithTimeout).               *)
(*                                                                         *)
(* One step of the model is one macrotask of the JavaScript event loop: a  *)
(* command handler, a timer callback or an event-emitter callback,         *)
(* together with the promise continuations (microtasks) it releases, which *)
(* run to completion before the next macrotask starts.                     *)
(***************************************************************************)
EXTENDS Integers, Sequences, FiniteSets, TLC

\* Bounds of the model.
MaxRuns == 2          \* runFile invocations explored
MaxChunks == 1        \* 'data' events explored

Runs == 1..MaxRuns
Streams == {"stdout", "stderr"}
Platforms == {"unix", "win32"}
\* exit codes as the 'exit' event reports them; "null" is death by signal
Codes == {"0", "1", "2", "null"}

\* user-visible messages
TIMEOUT_MESSAGE == "Toadus Ponens timed out."
FINISHED == "Finished running."
TERMINATED == "Forge process terminated."
EVAL_ERRORS == "sendEvalErrors"
EXIT_CODE_ERROR == "Racket process exited with code"
SAVE_ERROR == "Forge run failed. Could not save"
RUN_FAILED == "Toadus Ponens run failed"
SENT_SIGKILL == "Racket process did not terminate. Sending SIGKILL"
MAY_NOT_HAVE_TERMINATED == "The previous racket process MAY not have terminated"

VARIABLES
  childProcess,          \* RacketProcess.childProcess: 0 is null, else the run whose process is tracked
  racketKilledManually,  \* RacketProcess.racketKilledManually
  platform,              \* os.platform()
  activated,             \* the extension is active (commands can be invoked)
  nextRun,               \* the next runFile invocation
  proc,                  \* per run: the child process spawned for it
  run,                   \* per run: the caller's promise, listeners' accumulators, wrapper
  req,                   \* the feedback request (generateHints) in progress
  cn,                    \* a call of chooseN in progress
  app                    \* a call of one of the other pure functions, with its arguments

\* the gateway and its runs
gvars == <<childProcess, racketKilledManually, platform, activated, nextRun, proc, run>>

vars == <<childProcess, racketKilledManually, platform, activated, nextRun, proc, run, req, cn, app>>

NoProc ==
  [ life |-> "none",          \* none | running ('exit' not yet emitted) | done
    pid |-> 0,
    exitAttached |-> FALSE,   \* the 'exit' listener of runFile is still registered
    killed |-> FALSE,         \* ChildProcess.killed
    signals |-> {},           \* signals sent to the process
    killedBy |-> "none",      \* the argument of the kill call that stopped it: none | manual | auto
    graceTimer |-> "none" ]   \* the 5 s timer of kill: none | armed | fired

NoRun ==
  [ kind |-> "none",          \* none | cmd (forge.runFile) | hint (runTestsAgainstModel)
    promise |-> "none",       \* the promise of runFile: none | pending | resolved | rejected
    settledBy |-> 0,          \* the process whose 'exit' event settled the promise
    out |-> [s \in Streams |-> <<>>],  \* chunks the stream listeners accumulated, each with
                              \* the process it came from and the process tracked when it came
    shown |-> "none",         \* what the exit listener of forge.runFile rendered
    notices |-> {},           \* error messages shown for this run
    tempFile |-> "none",      \* none | exists | deleted
    stderrErr |-> "none",     \* runresult.stderr = e (the catch of runTestsAgainstModel)
    wrapper |-> "none",       \* promise of runTestsAgainstModelWithTimeout: none | pending | result | sentinel | rejected
    timer |-> "none",         \* its timeout: none | armed | fired | cleared
    abandoned |-> FALSE ]     \* the timeout fired while the run's process was the tracked one

\* the response of generateHints, and the request before forge.halp
NoResponse == [kind |-> "none", hints |-> <<>>, blocks |-> <<>>, embeds |-> <<>>]
NoRequest ==
  [ pc |-> "idle",            \* idle | awaitWheat | awaitRun1 | awaitGrader | awaitEval
                              \*  | awaitHintMap | done | rejected
    strategy |-> "none",      \* this.mutationStrategy
    thoroughness |-> "none",  \* this.thoroughnessStrategy
    w_o |-> <<>>,             \* stderr of the first run
    who |-> "none",           \* the caller of the resolver: comp | perTest | thor
    variant |-> "none",       \* the resolver: fail (MutantFailures) | pass (MutantPasses)
    inTry |-> FALSE,          \* the thoroughness analysis was entered inside the try of generateHints
    line |-> 0,               \* runPerTestStrategy: the line of w_o being resolved
    phase |-> 0,              \* generateThoroughnessFeedback: the resolver call in progress
    per_test_hints |-> <<>>,  \* runPerTestStrategy: test name and hints, in insertion order
    results |-> <<>>,         \* generateThoroughnessFeedback: the lists obtained so far
    tNames |-> <<>>,          \* the resolver: failing grading-suite test names
    response |-> NoResponse,  \* what generateHints returned
    shown |-> {},             \* showErrorMessage
    failure |-> "none",       \* the last exception thrown: fetch | construct | mutate | asString | evaluate
    wheat |-> "none",         \* status of the wheat fetch
    runs |-> 0,               \* evaluator runs attempted
    fetches |-> 0,            \* artifact fetches issued
    mutators |-> <<>>,        \* per ConceptualMutator constructed: its cap (0: none), the line of
                              \* w_o it was given (0: all of w_o), the operations called on it
    ambiguous |-> 0,          \* AMBIGUOUS_TEST events logged
    afterFailure |-> FALSE,   \* an evaluation or a hint lookup followed a failed fetch
    ag |-> "none",            \* the last evaluation of a mutant: none | text | timeout | error | reject
    returned |-> <<>>,        \* what the last resolver call returned
    tables |-> 0,             \* fetches of the hint table issued
    timedOut |-> FALSE,       \* a resolver call has returned the timeout marker
    calls |-> 0,              \* resolver calls made
    failCalls |-> 0,          \* of them, calls of tryGetHintsFromMutantFailures
    reconciled |-> "unknown", \* runComprehensiveStrategy: inconsistent_tests after the
                              \* mutation: unknown | none | some
    pending |-> 0 ]           \* fetches and evaluations issued and not yet settled

\* no call of chooseN
NoChoice ==
  [ pc |-> "idle",            \* idle | loop | returned
    arr |-> <<>>,             \* the argument, spliced in place
    n |-> 0,
    randomElements |-> <<>>,
    maxElements |-> 0,
    i |-> 0,
    original |-> <<>>,        \* arr as it was at the call
    at |-> <<>>,              \* per element of arr, its position in original
    picked |-> <<>> ]         \* per element of randomElements, the position it was taken from

\* no call of a pure function
NoCall == [f |-> "none", pc |-> "idle"]

Init ==
  /\ childProcess = 0
  /\ racketKilledManually = FALSE
  /\ platform \in Platforms
  /\ activated = TRUE
  /\ nextRun = 1
  /\ proc = [r \in Runs |-> NoProc]
  /\ run = [r \in Runs |-> NoRun]
  /\ req = NoRequest
  /\ cn = NoChoice
  /\ app = NoCall

----------------------------------------------------------------------------
\* RacketProcess.cleanup: removeAllListeners on the tracked process (the handle
\* is cleared by the caller of this operator).
cleanup(P, cp) ==
  IF cp = 0 THEN P ELSE [P EXCEPT ![cp].exitAttached = FALSE]

\* RacketProcess.kill(manual), its effect on the processes: taskkill /F on
\* Windows, SIGTERM plus the 5 s timer elsewhere, then cleanup.
kill(P, cp, manual) ==
  IF cp = 0 THEN P
  ELSE LET how == IF manual THEN "manual" ELSE "auto"
           signalled ==
             IF platform = "win32"
             THEN [P EXCEPT ![cp].signals = @ \cup {"taskkill"},
                            ![cp].killedBy = how]
             ELSE [P EXCEPT ![cp].signals = @ \cup {"SIGTERM"},
                            ![cp].killedBy = how,
                            ![cp].killed = TRUE,
                            ![cp].graceTimer = "armed"]
       IN cleanup(signalled, cp)

\* the operating system still runs process p: it has not been seen to end and
\* has received no signal that cannot be ignored
Alive(p) == proc[p].life = "running" /\ proc[p].signals \cap {"SIGKILL", "taskkill"} = {}

\* (a kill that records its argument whether or not a process is tracked)
killFlagAlways(flag, cp, manual) == manual

\* racketKilledManually after kill(manual)
killFlag(flag, cp, manual) == IF cp = 0 THEN flag ELSE manual

\* process ids the operating system can hand to a new process: a fresh one, or
\* the id of a process that has ended and been reaped
FreePids(P, r) == {r} \cup {P[q].pid : q \in {x \in Runs : P[x].life = "done"}}

\* spawn('racket', ...) in runFile and the registration of the 'exit' listener
spawn(P, r, pid) ==
  [P EXCEPT ![r] = [NoProc EXCEPT !.life = "running", !.pid = pid, !.exitAttached = TRUE]]

\* (a gateway that kept one set of listeners for whichever process is tracked)
ListenerRunShared(p) == IF childProcess # 0 THEN childProcess ELSE p

\* The run whose closures runFile registered on the emitters of process p
\* (stdoutListener, stderrListener, the 'exit' handler with its resolve/reject):
\* they are created per call of runFile, next to spawn.
ListenerRun(p) == p

\* the body of runFile once the auto-save check has passed: kill(false), reset
\* of the flag, spawn, registration of the listeners
startRun(kind, r, pid) ==
  /\ proc' = spawn(kill(proc, childProcess, FALSE), r, pid)
  /\ racketKilledManually' = FALSE
  /\ childProcess' = r
  /\ nextRun' = r + 1

\* (a continuation that settles the wrapper with its result whatever has
\* happened to it before)
afterRunFileSettlesAgain(rec, why) ==
  LET caught == IF rec.promise = "rejected"
                THEN [rec EXCEPT !.notices = @ \cup {RUN_FAILED}, !.stderrErr = why]
                ELSE rec
  IN [caught EXCEPT !.tempFile = "deleted",
                    !.timer = IF @ = "armed" THEN "cleared" ELSE @,
                    !.wrapper = "result"]

\* the continuation of runTestsAgainstModel after `await promise` (catch,
\* finally, return) and the then/catch of the timeout wrapper
afterRunFile(rec, why) ==
  LET caught == IF rec.promise = "rejected"
                THEN [rec EXCEPT !.notices = @ \cup {RUN_FAILED}, !.stderrErr = why]
                ELSE rec
  IN [caught EXCEPT !.tempFile = "deleted",
                    !.timer = IF @ = "armed" THEN "cleared" ELSE @,
                    !.wrapper = IF @ = "pending" THEN "result" ELSE @]

\* the 'exit' handler of runFile, as far as the caller's record goes
exitHandler(rec, code, p) ==
  IF rec.promise # "pending" THEN rec
  ELSE IF rec.kind = "cmd"
  THEN [rec EXCEPT
          !.shown = IF ~racketKilledManually
                    THEN (IF rec.out["stderr"] # <<>> THEN EVAL_ERRORS ELSE FINISHED)
                    ELSE TERMINATED,
          !.promise = "resolved",
          !.settledBy = p]
  ELSE IF code \notin {"0", "1"}
  THEN [rec EXCEPT !.notices = @ \cup {EXIT_CODE_ERROR}, !.promise = "rejected", !.settledBy = p]
  ELSE [rec EXCEPT !.promise = "resolved", !.settledBy = p]

----------------------------------------------------------------------------
\* forge.runFile: the command, with its three listeners
CmdRunFile ==
  /\ activated /\ nextRun <= MaxRuns
  /\ \E pid \in FreePids(proc, nextRun) : startRun("cmd", nextRun, pid)
  /\ run' = [run EXCEPT ![nextRun] = [NoRun EXCEPT !.kind = "cmd", !.promise = "pending"]]
  /\ UNCHANGED <<platform, activated, req, cn, app>>

\* runTestsAgainstModelWithTimeout -> runTestsAgainstModel -> runFile, up to
\* the first await that really suspends
HintRun ==
  /\ activated /\ nextRun <= MaxRuns
  /\ \E editorOpen \in BOOLEAN, preCreated \in BOOLEAN, writeOk \in BOOLEAN :
       LET r == nextRun
           begun == [NoRun EXCEPT !.kind = "hint", !.wrapper = "pending", !.timer = "armed",
                                  !.tempFile = IF preCreated \/ writeOk THEN "exists" ELSE "none"]
       IN IF ~writeOk
          THEN \* writeFileSync throws: catch, then finally unlinkSync
               /\ run' = [run EXCEPT ![r] =
                    IF preCreated
                    THEN afterRunFile([begun EXCEPT !.promise = "rejected"], "write")
                    ELSE [begun EXCEPT !.notices = {RUN_FAILED}, !.stderrErr = "write",
                                       !.timer = "cleared", !.wrapper = "rejected"]]
               /\ nextRun' = r + 1
               /\ UNCHANGED <<childProcess, racketKilledManually, proc>>
          ELSE IF ~editorOpen
          THEN \* runFile rejects before kill and spawn
               /\ run' = [run EXCEPT ![r] =
                    afterRunFile([begun EXCEPT !.promise = "rejected", !.notices = {SAVE_ERROR}], "save")]
               /\ nextRun' = r + 1
               /\ UNCHANGED <<childProcess, racketKilledManually, proc>>
          ELSE /\ \E pid \in FreePids(proc, r) : startRun("hint", r, pid)
               /\ run' = [run EXCEPT ![r] = [begun EXCEPT !.promise = "pending"]]
  /\ UNCHANGED <<platform, activated, req, cn, app>>

\* forge.stopRun
StopRun ==
  /\ activated
  /\ proc' = kill(proc, childProcess, TRUE)
  /\ racketKilledManually' = killFlag(racketKilledManually, childProcess, TRUE)
  /\ childProcess' = 0
  /\ UNCHANGED <<platform, activated, nextRun, run, req, cn, app>>

\* deactivate
Deactivate ==
  /\ activated
  /\ proc' = kill(proc, childProcess, FALSE)
  /\ racketKilledManually' = killFlag(racketKilledManually, childProcess, FALSE)
  /\ childProcess' = 0
  /\ activated' = FALSE
  /\ UNCHANGED <<platform, nextRun, run, req, cn, app>>

\* forge.continueRun -> continueEval: a newline on the stdin of the tracked
\* process, or an error message; the gateway's state is left alone
ContinueRun ==
  /\ activated
  /\ UNCHANGED vars

\* the chunks delivered so far, on all streams
RECURSIVE Delivered(_)
Delivered(R) ==
  IF R = {} THEN 0
  ELSE LET r == CHOOSE x \in R : TRUE
       IN Len(run[r].out["stdout"]) + Len(run[r].out["stderr"]) + Delivered(R \ {r})

\* a 'data' event of a stream of process p
Data(p, s) ==
  /\ proc[p].life # "none"
  /\ Delivered(Runs) < MaxChunks
  /\ run' = [run EXCEPT ![ListenerRun(p)].out[s] =
               Append(@, [from |-> p, during |-> childProcess])]
  /\ UNCHANGED <<childProcess, racketKilledManually, platform, activated, nextRun, proc, req, cn, app>>

\* process p has ended (by itself, or because of a signal it received) and its
\* 'exit' event is emitted
ExitEvent(p, code) ==
  /\ proc[p].life = "running"
  /\ code = "null" => proc[p].signals # {}
  /\ LET ended == [proc EXCEPT ![p].life = "done"]
         r == ListenerRun(p)
     IN IF proc[p].exitAttached
        THEN LET settled == exitHandler(run[r], code, p)
             IN /\ proc' = cleanup(ended, childProcess)
                /\ childProcess' = 0
                /\ run' = [run EXCEPT ![r] =
                     IF settled.kind = "hint" /\ run[r].promise = "pending"
                     THEN afterRunFile(settled, "exit") ELSE settled]
        ELSE /\ proc' = ended
             /\ UNCHANGED <<childProcess, run>>
  /\ UNCHANGED <<racketKilledManually, platform, activated, nextRun, req, cn, app>>

\* the callback of the 5 s timer that kill(p) set
GraceTimer(p) ==
  /\ proc[p].graceTimer = "armed"
  /\ LET cp == childProcess
         oldPid == proc[p].pid
         fired == [proc EXCEPT ![p].graceTimer = "fired"]
         alive == {q \in Runs : proc[q].pid = oldPid /\ proc[q].life = "running"}
     IN IF cp # 0 /\ ~proc[cp].killed
        THEN IF oldPid = proc[cp].pid
             THEN \* process.kill(oldPid, 'SIGKILL')
                  /\ proc' = [q \in Runs |->
                       IF q \in alive
                       THEN [fired[q] EXCEPT !.signals = @ \cup {"SIGKILL"}]
                       ELSE fired[q]]
                  /\ run' = [run EXCEPT ![p].notices = @ \cup {SENT_SIGKILL}]
             ELSE /\ proc' = fired
                  /\ run' = IF alive # {}
                            THEN [run EXCEPT ![p].notices = @ \cup {MAY_NOT_HAVE_TERMINATED}]
                            ELSE run
        ELSE /\ proc' = fired
             /\ run' = run
  /\ UNCHANGED <<childProcess, racketKilledManually, platform, activated, nextRun, req, cn, app>>

\* (a timeout callback that shows the message and resolves nothing)
WrapperTimeoutShowsOnly(r) ==
  /\ run[r].timer = "armed"
  /\ run' = [run EXCEPT ![r].timer = "fired",
                        ![r].notices = @ \cup {TIMEOUT_MESSAGE}]
  /\ UNCHANGED <<childProcess, racketKilledManually, platform, activated, nextRun, proc, req, cn, app>>

\* the callback of the timeout of runTestsAgainstModelWithTimeout
WrapperTimeout(r) ==
  /\ run[r].timer = "armed"
  /\ run' = [run EXCEPT ![r].timer = "fired",
                        ![r].notices = @ \cup {TIMEOUT_MESSAGE},
                        ![r].wrapper = IF @ = "pending" THEN "sentinel" ELSE @,
                        ![r].abandoned = (childProcess = r)]
  /\ UNCHANGED <<childProcess, racketKilledManually, platform, activated, nextRun, proc, req, cn, app>>

Next ==
  \/ CmdRunFile
  \/ HintRun
  \/ StopRun
  \/ Deactivate
  \/ ContinueRun
  \/ \E p \in Runs, code \in Codes : ExitEvent(p, code)
  \/ \E p \in Runs : GraceTimer(p)
  \/ \E r \in Runs : WrapperTimeout(r)

\* The gateway and its callers: process life cycle, signals, timers, promises.
Spec == Init /\ [][Next]_vars

\* The runs and what can keep them from ending: the commands that start and
\* stop processes, the exits, and the timeout of the wrapper.  The grace timer
\* of kill and forge.continueRun are left out; they touch neither a promise
\* nor a wrapper nor the handle.
NextTimers ==
  \/ CmdRunFile
  \/ HintRun
  \/ StopRun
  \/ Deactivate
  \/ \E p \in Runs, code \in Codes : ExitEvent(p, code)
  \/ \E r \in Runs : WrapperTimeout(r)

\* A timer of setTimeout fires when it is due: an armed timeout of the wrapper
\* is not left waiting for ever.  Nothing is assumed of the processes or of
\* the commands.
SpecTimers == Init /\ [][NextTimers]_vars /\ \A r \in Runs : WF_vars(WrapperTimeout(r))

\* RacketProcess.destroy: ChildProcess.kill() (SIGTERM) on the tracked process
\* and the handle cleared; its listeners stay registered
Destroy ==
  /\ childProcess # 0
  /\ proc' = [proc EXCEPT ![childProcess].signals = @ \cup {"SIGTERM"},
                          ![childProcess].killed = TRUE]
  /\ childProcess' = 0
  /\ UNCHANGED <<racketKilledManually, platform, activated, nextRun, run, req, cn, app>>

NextDestroy ==
  \/ Next
  \/ Destroy

\* The gateway with all its public operations, destroy included (no command
\* of the extension calls it).
SpecDestroy == Init /\ [][NextDestroy]_vars

\* The listeners: what the emitters of the processes deliver, and to whom.  The
\* timers (of kill, of the timeout wrapper) and the commands that register or
\* call no listener are left out; they read and write neither a listener nor
\* an accumulator.
NextStreams ==
  \/ CmdRunFile
  \/ HintRun
  \/ StopRun
  \/ \E p \in Runs, s \in Streams : Data(p, s)
  \/ \E p \in Runs, code \in Codes : ExitEvent(p, code)

SpecStreams == Init /\ [][NextStreams]_vars

----------------------------------------------------------------------------
(***************************************************************************)
(* The feedback request: HintGenerator.generateHints, the two strategies,  *)
(* the thoroughness analysis and the hint resolvers.  A step is the        *)
(* settlement of the fetch or of the evaluation the request is suspended   *)
(* on, with the code that runs up to the next suspension or to the return. *)
(* The evaluation itself is the gateway's business (above); here it is the *)
(* result the wrapper settles with.                                        *)
(***************************************************************************)
MAX_HINT == 3
MaxLines == 2         \* lines of the first run's standard error explored

NOT_ENABLED_MESSAGE == "Sorry! Toadus Ponens is not available for this assignment."
CONSISTENCY_MESSAGE == "Your tests are all consistent with the assignment specification!"
SOMETHING_WENT_WRONG == "Something went wrong during Toadus Ponens analysis."
AMBIGUOUS_TEST_MESSAGE == "Analyzed test(s) examine behaviors that are not clearly defined"
NETWORK_ERROR == "Toadus : Network error. Terminating run."
DOWNLOAD_ERROR == "Toadus : Network error (status)"
NO_TEST_FOUND == "I found a runtime or syntax error in your tests"
NO_THOROUGHNESS_HINT == "I could not generate a hint to help evaluate test thoroughness."
SETTINGS_ERROR == "Something was wrong in the extension settings."
MISSING_HINT == "Something went wrong (a failing test has no hint)"

\* String(currentSettings.get('feedbackStrategy')), ('thoroughnessFeedback')
Strategies == {"Comprehensive", "Per Test", "undefined"}
ThoroughnessModes == {"On", "Off"}

\* Lines of a standard-error text.
WARNING_LINE == "Warning: unused"
BLANK_LINE == " "
ERROR_LINE == "parse error"
StderrLines == {WARNING_LINE, BLANK_LINE, ERROR_LINE, "Failed test t1", "Failed test t2"}
AgLines == {"Failed test g1", "Failed test g2", "Failed test g3"}

\* all sequences over S of length at most n
RECURSIVE SeqsUpTo(_, _)
SeqsUpTo(S, n) ==
  IF n = 0 THEN {<<>>}
  ELSE LET shorter == SeqsUpTo(S, n - 1)
       IN shorter \cup {Append(t, x) : t \in shorter, x \in S}

StderrTexts == SeqsUpTo(StderrLines, MaxLines)
\* standard-error texts of a grading-suite run: empty, one failing test, or two
AgTexts == {<<>>} \cup {<<l>> : l \in AgLines} \cup {<<"Failed test g1", "Failed test g2">>}

\* getFailingTestData(line).name: the test a diagnostic line names, "" if none
TestName(line) ==
  CASE line = "Failed test t1" -> "t1"
    [] line = "Failed test t2" -> "t2"
    [] line = "Failed test g1" -> "g1"
    [] line = "Failed test g2" -> "g2"
    [] line = "Failed test g3" -> "g3"
    [] line = "Failed test toString" -> "toString"
    [] OTHER -> ""

\* getFailingTestsData(text).map(t => t.name)
RECURSIVE FailingNames(_)
FailingNames(text) ==
  IF text = <<>> THEN <<>>
  ELSE LET n == TestName(Head(text))
       IN (IF n = "" THEN <<>> ELSE <<n>>) \o FailingNames(Tail(text))

StartsWithWarning(line) == line = WARNING_LINE
IsBlank(line) == line = BLANK_LINE

\* (an isConsistent that accepts the empty text only)
isConsistentIfEmpty(text) == text = <<>>

\* isConsistent(w_o): nothing but white space is left once the warning lines
\* are dropped
isConsistent(text) ==
  \A i \in DOMAIN text : StartsWithWarning(text[i]) \/ IsBlank(text[i])

\* Downloaded texts are sequences of pieces; removeForgeComments drops the comments.
COMMENT == "// comment"
IsCode(piece) == piece # COMMENT
removeForgeComments(text) == SelectSeq(text, IsCode)

WheatBodies == {<<"pred">>, <<COMMENT>>}
\* hint tables: the entries of the JSON object, in the order of its keys
HintMaps ==
  { <<>>,
    <<[name |-> "g1", hint |-> "h1"]>>,
    <<[name |-> "g1", hint |-> "h1"], [name |-> "g2", hint |-> "h2"]>>,
    <<[name |-> "g1", hint |-> "h1"], [name |-> "g2", hint |-> "h1"]>> }

\* what fetch(url) settles with: a response, or a rejection (network failure)
FetchStatus == {"ok", "404", "500", "throw"}
WheatResponses ==
  {[status |-> "ok", body |-> b] : b \in WheatBodies}
    \cup {[status |-> s, body |-> <<>>] : s \in FetchStatus \ {"ok"}}
HintMapResponses ==
  {[status |-> "ok", body |-> m] : m \in HintMaps}
    \cup {[status |-> s, body |-> <<>>] : s \in FetchStatus \ {"ok"}}

\* (a downloadFile with no branch for status 404)
downloadFileAnyStatus(resp) == IF resp.status = "ok" THEN resp.body ELSE <<>>

\* downloadFile: the text it returns and the error message it shows
downloadFile(resp) ==
  IF resp.status = "ok" THEN resp.body
  ELSE IF resp.status = "404" THEN <<NOT_ENABLED_MESSAGE>>
  ELSE <<>>

downloadNotice(resp) ==
  IF resp.status = "ok" THEN {}
  ELSE IF resp.status = "404" THEN {NOT_ENABLED_MESSAGE}
  ELSE {DOWNLOAD_ERROR}

\* getHintMap: JSON.parse of the downloaded text, {} when it does not parse
getHintMap(resp) == IF resp.status = "ok" THEN resp.body ELSE <<>>

\* what runTestsAgainstModelWithTimeout settles with: a RunResult whose stderr
\* is a text, the timeout sentinel, a RunResult whose stderr is the Error that
\* runTestsAgainstModel caught, or a rejection
RunOutcomes(texts) ==
  {[kind |-> "text", lines |-> t] : t \in texts}
    \cup {[kind |-> k, lines |-> <<>>] : k \in {"timeout", "error", "reject"}}

\* the stderr of the RunResult a settled evaluation gives
stderrOf(res) == IF res.kind = "timeout" THEN <<TIMEOUT_MESSAGE>> ELSE res.lines

\* a ConceptualMutator construction with its mutation and getMutantAsString: the
\* call that throws, or the bookkeeping it leaves (inconsistent tests or none)
MutOutcomes == {"construct", "mutate", "asString", "none", "some"}
MutThrows == {"construct", "mutate", "asString"}

Response(kind, hints) == [kind |-> kind, hints |-> hints, blocks |-> <<>>, embeds |-> <<>>]

\* (the message without the text of the run)
noTestFoundBare(w_o) == Response("noTestFound", <<NO_TEST_FOUND>>)

\* `I found a runtime or syntax error in your tests:\n ${w_o}`
noTestFound(w_o) == [Response("noTestFound", <<NO_TEST_FOUND>>) EXCEPT !.embeds = w_o]

\* a fetch of the request has come back with a status that is not ok
fetchFailed(rq) == rq.shown \cap {NOT_ENABLED_MESSAGE, DOWNLOAD_ERROR} # {}

\* (an await that does not wait for the operation to settle)
awaitNothing(rq) == rq

\* await: the flow of the request resumes when the operation it issued last
\* has settled
await(rq) == [rq EXCEPT !.pending = @ - 1]

\* a fetch or an evaluation is issued
issue(rq) == [rq EXCEPT !.pending = @ + 1]

\* the request goes on to an evaluation or to a hint lookup
goesOn(rq) == [rq EXCEPT !.afterFailure = @ \/ fetchFailed(rq)]

Return(rq, resp) == [rq EXCEPT !.pc = "done", !.response = resp]

\* an exception leaves generateHints: its promise rejects
Escape(rq, cause) == [rq EXCEPT !.pc = "rejected", !.failure = cause]

\* the catch of generateHints
OuterCatch(rq, cause) ==
  Return([rq EXCEPT !.shown = @ \cup {SOMETHING_WENT_WRONG}, !.failure = cause],
         Response("wrong", <<SOMETHING_WENT_WRONG>>))

RemoveAt(s, i) == SubSeq(s, 1, i - 1) \o SubSeq(s, i + 1, Len(s))

\* chooseN: every result the random indices can give, with what is left of arr
RECURSIVE chooseNStep(_, _, _)
chooseNStep(arr, k, acc) ==
  IF k = 0 THEN {[chosen |-> acc, rest |-> arr]}
  ELSE UNION {chooseNStep(RemoveAt(arr, i), k - 1, Append(acc, arr[i])) : i \in DOMAIN arr}

chooseN(arr, n) == chooseNStep(arr, IF Len(arr) < n THEN Len(arr) ELSE n, <<>>)

generateHintFromCandidates(cands) ==
  IF cands = <<>> THEN {Response("empty", <<>>)}
  ELSE {Response("hints", c.chosen) : c \in chooseN(cands, MAX_HINT)}

generateThoroughnessFeedbackFromCandidates(cands) ==
  IF cands = <<>> THEN {Response("thoroughness", <<NO_THOROUGHNESS_HINT>>)}
  ELSE {Response("thoroughness", c.chosen) : c \in chooseN(cands, MAX_HINT)}

\* (an instance on which every operation is called a second time)
reusedMutator(cap, line, ops) == [cap |-> cap, line |-> line, ops |-> ops \o ops]

\* new ConceptualMutator(w, studentTests, output, testFileName, source_text, cap)
\* and the operations called on it
mutator(cap, line, ops) == [cap |-> cap, line |-> line, ops |-> ops]

\* tryGetHintsFromMutantFailures / tryGetHintsFromMutantPasses up to the fetch
\* of the grading suite
startResolver(rq, who, variant) ==
  issue([rq EXCEPT !.pc = "awaitGrader", !.who = who, !.variant = variant,
                   !.tNames = <<>>, !.fetches = @ + 1, !.calls = @ + 1,
                   !.failCalls = IF variant = "fail" THEN @ + 1 ELSE @])

\* generateThoroughnessFeedback up to its first resolver call: three mutators
\* and their mutations, outside its try
enterThoroughness(rq, inTry) ==
  { IF m = "construct"
    THEN (IF inTry THEN OuterCatch(rq, m) ELSE Escape(rq, m))
    ELSE IF m = "mutate"
    THEN LET built == [rq EXCEPT !.mutators = @ \o << mutator(0, 0, <<"mutateToExcludeInclusionTests">>),
                                                       mutator(0, 0, <<>>), mutator(0, 0, <<>>) >>]
         IN IF inTry THEN OuterCatch(built, m) ELSE Escape(built, m)
    ELSE startResolver(
           [rq EXCEPT !.mutators = @ \o << mutator(0, 0, <<"mutateToExcludeInclusionTests">>),
                                           mutator(0, 0, <<"mutatefromExclusionTestIntersection">>),
                                           mutator(0, 0, <<"mutateToVaccuity">>) >>,
                      !.inTry = inTry, !.phase = 1, !.results = <<>>],
           "thor", "pass")
    : m \in {"construct", "mutate", "none"} }

\* generateHints after runComprehensiveStrategy has returned hints
assembleComprehensive(rq, hints) ==
  LET hintSet == {hints[i] : i \in DOMAIN hints}
      noHint == hintSet = {}
      onlyAmbiguous == hintSet = {AMBIGUOUS_TEST_MESSAGE}
      meaningfulHints == ~noHint /\ ~onlyAmbiguous
  IN IF meaningfulHints \/ rq.thoroughness = "Off"
     THEN {Return(rq, resp) : resp \in generateHintFromCandidates(hints)}
     ELSE enterThoroughness(rq, TRUE)

\* the blocks of the composite hint: per test, the hints chosen for it
RECURSIVE compositeHints(_)
compositeHints(pth) ==
  IF pth = <<>> THEN {<<>>}
  ELSE LET e == Head(pth)
           blocks == IF e.hints = <<>>
                     THEN {[test |-> e.test, hints |-> <<AMBIGUOUS_TEST_MESSAGE>>]}
                     ELSE {[test |-> e.test, hints |-> c.chosen] : c \in chooseN(e.hints, MAX_HINT)}
       IN {<<b>> \o rest : b \in blocks, rest \in compositeHints(Tail(pth))}

\* (a Per Test branch that goes to the thoroughness analysis whenever it is enabled)
fallsThroughIfEnabled(non_ambiguous_failures, thoroughnessStrategy) ==
  thoroughnessStrategy # "Off"

\* non_ambiguous_failures == 0 && this.thoroughnessStrategy != "Off"
fallsThrough(non_ambiguous_failures, thoroughnessStrategy) ==
  non_ambiguous_failures = 0 /\ thoroughnessStrategy # "Off"

\* generateHints after runPerTestStrategy has returned per_test_hints
assemblePerTest(rq) ==
  LET pth == rq.per_test_hints
      ambiguous_failures == Cardinality({i \in DOMAIN pth : pth[i].hints = <<>>})
      non_ambiguous_failures == Len(pth) - ambiguous_failures
      logged == [rq EXCEPT !.ambiguous = @ + ambiguous_failures]
  IN IF fallsThrough(non_ambiguous_failures, rq.thoroughness)
     THEN enterThoroughness(logged, TRUE)
     ELSE {Return(logged, [kind |-> "composite", hints |-> <<>>, blocks |-> c, embeds |-> <<>>])
             : c \in compositeHints(pth)}

\* (a map that keeps its first key only)
putHintsFirstOnly(pth, tn, hints) ==
  IF pth = <<>> THEN <<[test |-> tn, hints |-> hints]>> ELSE pth

\* per_test_hints[tn] = hints
putHints(pth, tn, hints) ==
  IF \E i \in DOMAIN pth : pth[i].test = tn
  THEN [i \in DOMAIN pth |-> IF pth[i].test = tn THEN [test |-> tn, hints |-> hints] ELSE pth[i]]
  ELSE Append(pth, [test |-> tn, hints |-> hints])

\* the loop of runPerTestStrategy from line `from` of w_o on
perTestLoop(rq, from) ==
  LET named == {j \in from..Len(rq.w_o) : TestName(rq.w_o[j]) # ""}
  IN IF named = {}
     THEN assemblePerTest(rq)
     ELSE LET j == CHOOSE x \in named : \A y \in named : x <= y
          IN { IF m = "construct"
               THEN OuterCatch(rq, m)
               ELSE LET built == [rq EXCEPT !.mutators = Append(@, mutator(1, j, <<"mutateToFailingTests">>)),
                                            !.line = j]
                    IN IF m \in MutThrows
                       THEN OuterCatch(built, m)
                       ELSE startResolver(built, "perTest", "fail")
               : m \in MutOutcomes }

\* (a test of the mutation's outcome that never finds the list empty)
neverNoInconsistentTests(m) == FALSE

\* inconsistent_tests.length == 0
noInconsistentTests(m) == m = "none"

\* runComprehensiveStrategy up to its resolver call, and what follows when it
\* returns without one
runComprehensiveStrategy(rq) ==
  UNION { IF m = "construct"
          THEN {OuterCatch(rq, m)}
          ELSE LET mutated == [rq EXCEPT !.mutators = Append(@, mutator(0, 0, <<"mutateToFailingTests">>))]
                   built == [mutated EXCEPT !.reconciled = IF m = "none" THEN "none" ELSE "some"]
               IN IF m = "mutate" THEN {OuterCatch(mutated, m)}
                  ELSE IF noInconsistentTests(m) THEN assembleComprehensive(built, <<>>)
                  ELSE IF m = "asString"
                  THEN assembleComprehensive(
                         [built EXCEPT !.shown = @ \cup {SOMETHING_WENT_WRONG}, !.failure = m],
                         <<SOMETHING_WENT_WRONG>>)
                  ELSE {startResolver(built, "comp", "fail")}
          : m \in MutOutcomes }

\* the list generateThoroughnessFeedback returns from A, B and C
IsIn(h, list) == \E i \in DOMAIN list : list[i] = h

\* (a difference that does not take the vacuous mutant's hints out of B)
differenceWithoutBaseline(A, B, C) ==
  LET NotCovered(h) == ~IsIn(h, B)
  IN SelectSeq(A, NotCovered)

thoroughnessDifference(A, B, C) ==
  LET NotPositive(h) == ~IsIn(h, C)
      negative_covered_hints == SelectSeq(B, NotPositive)
      NotCovered(h) == ~IsIn(h, negative_covered_hints)
  IN SelectSeq(A, NotCovered)

\* a resolver call returns hints to its caller
resolverReturns(rq0, hints) ==
  LET rq == [rq0 EXCEPT !.returned = hints, !.tNames = <<>>]
  IN IF rq.who = "comp"
     THEN IF hints = <<>>
          THEN assembleComprehensive([rq EXCEPT !.ambiguous = @ + 1], <<AMBIGUOUS_TEST_MESSAGE>>)
          ELSE assembleComprehensive(rq, hints)
     ELSE IF rq.who = "perTest"
     THEN perTestLoop([rq EXCEPT !.per_test_hints =
                          putHints(@, TestName(rq.w_o[rq.line]), hints)],
                      rq.line + 1)
     ELSE LET got == Append(rq.results, hints)
          IN IF rq.phase < 3
             THEN {startResolver([rq EXCEPT !.results = got, !.phase = @ + 1], "thor", "pass")}
             ELSE {Return([rq EXCEPT !.results = got], resp)
                     : resp \in generateThoroughnessFeedbackFromCandidates(
                                  thoroughnessDifference(got[1], got[2], got[3]))}

\* an exception is thrown inside a resolver call
resolverThrows(rq0, cause) ==
  LET rq == [rq0 EXCEPT !.tNames = <<>>]
  IN
  IF rq.who = "perTest"
  THEN {OuterCatch(rq, cause)}
  ELSE LET caught == [rq EXCEPT !.shown = @ \cup {SOMETHING_WENT_WRONG}, !.failure = cause]
       IN IF rq.who = "comp"
          THEN assembleComprehensive(caught, <<SOMETHING_WENT_WRONG>>)
          ELSE {Return(caught, resp)
                  : resp \in generateThoroughnessFeedbackFromCandidates(<<SOMETHING_WENT_WRONG>>)}

\* tryGetFailingHintsFromAutograderOutput, after the hint table has come
\* hint_map is an object: besides its own keys it has the properties every
\* object inherits
ObjectPrototype ==
  {"constructor", "hasOwnProperty", "isPrototypeOf", "propertyIsEnumerable",
   "toLocaleString", "toString", "valueOf", "__proto__"}
INHERITED == "function () { [native code] }"

ownKey(tName, hint_map) == \E i \in DOMAIN hint_map : hint_map[i].name = tName

\* tName in hint_map
hasProperty(tName, hint_map) == ownKey(tName, hint_map) \/ tName \in ObjectPrototype

\* hint_map[tName], for a property hint_map has
property(tName, hint_map) ==
  IF ownKey(tName, hint_map)
  THEN hint_map[CHOOSE i \in DOMAIN hint_map : hint_map[i].name = tName].hint
  ELSE INHERITED

\* tNames.filter((tName) => tName in hint_map)
presentNames(tNames, hint_map) ==
  LET InMap(n) == hasProperty(n, hint_map)
  IN SelectSeq(tNames, InMap)

failingHints(tNames, hint_map) ==
  LET present == presentNames(tNames, hint_map)
  IN [i \in DOMAIN present |-> property(present[i], hint_map)]

hasIssues(tNames, hint_map) ==
  \E k \in DOMAIN tNames : ~hasProperty(tNames[k], hint_map)

\* (a filter that leaves no entry out)
everyTest(failed_tests, hint_map) == hint_map

\* test_names.filter(x => !failed_tests.includes(x)), each name with its entry
missingTests(failed_tests, hint_map) ==
  LET Missing(e) == ~IsIn(e.name, failed_tests)
  IN SelectSeq(hint_map, Missing)

\* tryGetPassingHintsFromAutograderOutput, after the hint table has come
passingHints(failed_tests, hint_map) ==
  LET missing == missingTests(failed_tests, hint_map)
  IN [i \in DOMAIN missing |-> missing[i].hint]

\* forge.halp: a HintGenerator is built from the settings and generateHints
\* runs up to the fetch of the wheat
Generate ==
  /\ req.pc = "idle"
  /\ \E st \in Strategies, th \in ThoroughnessModes :
       req' = issue([req EXCEPT !.pc = "awaitWheat", !.strategy = st, !.thoroughness = th,
                                !.fetches = @ + 1])
  /\ UNCHANGED <<gvars, cn, app>>

\* getWheat settles; generateHints runs up to the first evaluation
WheatFetched ==
  /\ req.pc = "awaitWheat"
  /\ \E resp \in WheatResponses :
       LET w == removeForgeComments(downloadFile(resp))
           told == [await(req) EXCEPT !.wheat = resp.status, !.shown = @ \cup downloadNotice(resp)]
       IN req' =
            IF resp.status = "throw" THEN Escape(told, "fetch")
            ELSE IF w = <<>>
            THEN Return([told EXCEPT !.shown = @ \cup {NETWORK_ERROR}], Response("empty", <<>>))
            ELSE IF w = <<NOT_ENABLED_MESSAGE>>
            THEN Return([told EXCEPT !.shown = @ \cup {NOT_ENABLED_MESSAGE}], Response("empty", <<>>))
            ELSE goesOn(issue([told EXCEPT !.pc = "awaitRun1", !.runs = @ + 1]))
  /\ UNCHANGED <<gvars, cn, app>>

\* the first run settles; generateHints runs up to its return or to the next
\* suspension
FirstRunSettled ==
  /\ req.pc = "awaitRun1"
  /\ \E res \in RunOutcomes(StderrTexts) :
       IF res.kind \in {"reject", "error"}
       THEN \* the await throws, or isConsistent is applied to an Error
            req' = Escape(await(req), "evaluate")
       ELSE LET w_o == stderrOf(res)
                rq == [await(req) EXCEPT !.w_o = w_o]
            IN req' \in
                 IF isConsistent(w_o)
                 THEN IF rq.thoroughness = "Off"
                      THEN {Return(rq, Response("consistent", <<CONSISTENCY_MESSAGE>>))}
                      ELSE enterThoroughness(rq, FALSE)
                 ELSE IF FailingNames(w_o) = <<>>
                 THEN {Return(rq, noTestFound(w_o))}
                 ELSE IF rq.strategy = "Per Test" THEN perTestLoop(rq, 1)
                 ELSE IF rq.strategy = "Comprehensive" THEN runComprehensiveStrategy(rq)
                 ELSE {Return(rq, Response("settings", <<SETTINGS_ERROR>>))}
  /\ UNCHANGED <<gvars, cn, app>>

\* getAutograderTests settles; the resolver starts the evaluation of the mutant
GraderFetched ==
  /\ req.pc = "awaitGrader"
  /\ \E status \in FetchStatus :
       LET told == [await(req) EXCEPT !.shown = @ \cup downloadNotice([status |-> status])]
       IN req' \in
            IF status = "throw" THEN resolverThrows(await(req), "fetch")
            ELSE {goesOn(issue([told EXCEPT !.pc = "awaitEval", !.runs = @ + 1]))}
  /\ UNCHANGED <<gvars, cn, app>>

\* (a resolver that does not look for the timeout marker)
isTimeoutNever(ag_output) == FALSE

\* ag_output == TIMEOUT_MESSAGE
isTimeout(ag_output) == ag_output = <<TIMEOUT_MESSAGE>>

\* the evaluation of the mutant settles
EvalSettled ==
  /\ req.pc = "awaitEval"
  /\ \E res \in RunOutcomes(AgTexts) :
       LET ag_output == stderrOf(res)
           rq == [await(req) EXCEPT !.ag = res.kind]
       IN req' \in
            IF res.kind \in {"reject", "error"}
            THEN \* the await throws, or getFailingTestsData is applied to an Error
                 resolverThrows(rq, "evaluate")
            ELSE IF isTimeout(ag_output)
            THEN resolverReturns([rq EXCEPT !.timedOut = TRUE], <<TIMEOUT_MESSAGE>>)
            ELSE IF rq.variant = "fail" /\ ag_output = <<>> THEN resolverReturns(rq, <<>>)
            ELSE {issue([rq EXCEPT !.pc = "awaitHintMap", !.tNames = FailingNames(ag_output),
                                   !.fetches = @ + 1, !.tables = @ + 1])}
  /\ UNCHANGED <<gvars, cn, app>>

\* getHintMap settles; the resolver returns its candidates
HintMapFetched ==
  /\ req.pc = "awaitHintMap"
  /\ \E resp \in HintMapResponses :
       LET hint_map == getHintMap(resp)
           told == [await(req) EXCEPT !.shown = @ \cup downloadNotice(resp)]
       IN req' \in
            IF resp.status = "throw" THEN resolverThrows(await(req), "fetch")
            ELSE IF req.variant = "fail"
            THEN resolverReturns(
                   [goesOn(told) EXCEPT !.shown = @ \cup (IF hasIssues(req.tNames, hint_map)
                                                          THEN {MISSING_HINT} ELSE {})],
                   failingHints(req.tNames, hint_map))
            ELSE resolverReturns(goesOn(told), passingHints(req.tNames, hint_map))
  /\ UNCHANGED <<gvars, cn, app>>

NextHints ==
  \/ Generate
  \/ WheatFetched
  \/ FirstRunSettled
  \/ GraderFetched
  \/ EvalSettled
  \/ HintMapFetched

\* One feedback request, from the command to the response (the request reads
\* nothing of the platform).
InitHints == Init /\ platform = "unix"

SpecHints == InitHints /\ [][NextHints]_vars

\* The same, with every fetch and every evaluation the request is suspended
\* on settling: the evaluations because of the timeout of the wrapper
\* (SpecTimers), the fetches because the HTTP client answers or fails.
SpecRequests == InitHints /\ [][NextHints]_vars /\ WF_vars(NextHints)

----------------------------------------------------------------------------
\* chooseN, statement by statement

MaxCands == 4
Candidates == SeqsUpTo({"h1", "h2"}, MaxCands)

\* (a bound of the loop that ignores the length of arr)
minIsSecond(a, b) == b

\* Math.min
min(a, b) == IF a < b THEN a ELSE b

\* (a removal that leaves the list as it is)
spliceNothing(arr, randomIndex) == arr

\* arr.splice(randomIndex, 1), with randomIndex counted from 0
splice(arr, randomIndex) ==
  IF randomIndex + 1 \in DOMAIN arr THEN RemoveAt(arr, randomIndex + 1) ELSE arr

\* arr[randomIndex], with randomIndex counted from 0
elementAt(arr, randomIndex) ==
  IF randomIndex + 1 \in DOMAIN arr THEN arr[randomIndex + 1] ELSE "undefined"

\* Math.floor(Math.random() * arr.length)
randomIndices(arr) == IF arr = <<>> THEN {0} ELSE 0 .. Len(arr) - 1

\* chooseN(arr, n) up to the test of its loop
call(arr, n) ==
  [ pc |-> "loop", arr |-> arr, n |-> n, randomElements |-> <<>>,
    maxElements |-> min(Len(arr), n), i |-> 0,
    original |-> arr, at |-> [k \in DOMAIN arr |-> k], picked |-> <<>> ]

\* one iteration of the loop
ChooseIteration ==
  /\ cn.pc = "loop"
  /\ cn.i < cn.maxElements
  /\ \E randomIndex \in randomIndices(cn.arr) :
       cn' = [cn EXCEPT !.randomElements = Append(@, elementAt(cn.arr, randomIndex)),
                        !.picked = Append(@, elementAt(cn.at, randomIndex)),
                        !.arr = splice(@, randomIndex),
                        !.at = splice(@, randomIndex),
                        !.i = @ + 1]
  /\ UNCHANGED <<gvars, req, app>>

\* the loop's test fails: return randomElements
ChooseReturn ==
  /\ cn.pc = "loop"
  /\ ~(cn.i < cn.maxElements)
  /\ cn' = [cn EXCEPT !.pc = "returned"]
  /\ UNCHANGED <<gvars, req, app>>

NextChoose ==
  \/ ChooseIteration
  \/ ChooseReturn

InitChoose ==
  /\ childProcess = 0
  /\ racketKilledManually = FALSE
  /\ platform = "unix"
  /\ activated = TRUE
  /\ nextRun = 1
  /\ proc = [r \in Runs |-> NoProc]
  /\ run = [r \in Runs |-> NoRun]
  /\ req = NoRequest
  /\ cn \in {call(arr, MAX_HINT) : arr \in Candidates}
  /\ app = NoCall

\* the call is synchronous: its statements are executed one after the other
\* until it returns
SpecChoose == InitChoose /\ [][NextChoose]_vars /\ WF_vars(NextChoose)

----------------------------------------------------------------------------
\* The pure functions of the hint generator and of the output classifier, each
\* applied to arguments drawn from a bounded set.

\* nothing else of the program is in progress
Idle ==
  /\ childProcess = 0
  /\ racketKilledManually = FALSE
  /\ platform = "unix"
  /\ activated = TRUE
  /\ nextRun = 1
  /\ proc = [r \in Runs |-> NoProc]
  /\ run = [r \in Runs |-> NoRun]
  /\ req = NoRequest
  /\ cn = NoChoice

Return1(out) ==
  /\ app' = [app EXCEPT !.pc = "returned", !.out = out]
  /\ UNCHANGED <<gvars, req, cn>>

\* hint lists the three resolutions of generateThoroughnessFeedback can give
MaxList == 2
Hints == {"h1", "h2", "h3"}
HintLists == SeqsUpTo(Hints, MaxList)

\* the last statements of generateThoroughnessFeedback, given the three lists
Difference ==
  /\ app.f = "difference" /\ app.pc = "called"
  /\ Return1(thoroughnessDifference(app.A, app.B, app.C))

InitDifference ==
  /\ Idle
  /\ app \in {[f |-> "difference", pc |-> "called", A |-> A, B |-> B, C |-> C, out |-> <<>>]
                : A \in HintLists, B \in HintLists, C \in HintLists}

SpecDifference == InitDifference /\ [][Difference]_vars

----------------------------------------------------------------------------
\* RacketProcess.matchForgeError and sendEvalErrors. A line is a sequence of
\* fragments: a fragment is a piece of text in the form of one of the
\* diagnostics Forge prints, with the numbers it reports, or other text.

MaxNum == 2
Nums == 0 .. MaxNum

fragment(form, line, col, span) == [form |-> form, line |-> line, col |-> col, span |-> span]

\* other text
OTHER_TEXT == fragment("other", 0, 0, 0)

Fragments ==
  \* "f.frg:L:C (span S)]", "at loc: line L, col C, span: S", "(srcloc #<path:p> L C O S)"
  {fragment(form, l, c, sp) : form \in {"testFailure", "loc", "srcloc"}, l \in Nums, c \in Nums, sp \in Nums}
  \* "f.frg:L:C", "#<path:p> [line=L, column=C, offset=O]", "[line=L, column=C, offset=O]"
    \cup {fragment(form, l, c, 0) : form \in {"syntaxError", "forgeErrorWithFileName", "forgeError"},
                                     l \in Nums, c \in Nums}
    \cup {OTHER_TEXT}

\* lines of one fragment or two
Lines == {<<a>> : a \in Fragments} \cup {<<a, b>> : a \in Fragments, b \in Fragments}

\* the forms of fragment in which a pattern finds a match
testFailurePattern == {"testFailure"}
raiseSyntaxErrorPattern == {"testFailure", "syntaxError"}
raiseForgeErrorWithFileNamePattern == {"forgeErrorWithFileName"}
raiseForgeErrorPattern == {"forgeErrorWithFileName", "forgeError"}
generalLocPattern == {"loc"}
generalsrcLocPattern == {"srcloc"}

found(line, pattern) == {i \in DOMAIN line : line[i].form \in pattern}

\* line.match(pattern): the fragment the match takes its groups from, 0 for
\* null. The leftmost match is taken; a pattern that begins with a greedy .*
\* matches from the start of the line up to the last occurrence.
matchFirst(line, pattern) ==
  IF found(line, pattern) = {} THEN 0
  ELSE CHOOSE i \in found(line, pattern) : \A j \in found(line, pattern) : i <= j

matchLast(line, pattern) ==
  IF found(line, pattern) = {} THEN 0
  ELSE CHOOSE i \in found(line, pattern) : \A j \in found(line, pattern) : i >= j

\* (no floor: the second argument whatever the first)
secondOf(a, b) == b

max(a, b) == IF a > b THEN a ELSE b

\* what matchForgeError returns: null, or the position and the width of the
\* range, with the branch taken and the fragment it read
Null == [grammar |-> "null", from |-> 0, linenum |-> 0, colnum |-> 0, span |-> 0]

located(grammar, from, linenum, colnum, span) ==
  [grammar |-> grammar, from |-> from,
   linenum |-> max(0, linenum), colnum |-> max(0, colnum), span |-> max(1, span)]

\* the last two branches of matchForgeError and its else
generalBranch(generalsrcLocMatch, generalLocMatch) ==
  IF generalsrcLocMatch # 0 THEN "generalsrcLoc"
  ELSE IF generalLocMatch # 0 THEN "generalLoc"
  ELSE "null"

matchForgeError(line) ==
  LET raiseSyntaxErrorMatch == matchFirst(line, raiseSyntaxErrorPattern)
      raiseForgeErrorWithFileNameMatch == matchFirst(line, raiseForgeErrorWithFileNamePattern)
      raiseForgeErrorMatch == matchLast(line, raiseForgeErrorPattern)
      generalLocMatch == matchFirst(line, generalLocPattern)
      generalsrcLocMatch == matchLast(line, generalsrcLocPattern)
      generalTestFailureMatch == matchFirst(line, testFailurePattern)
      general == generalBranch(generalsrcLocMatch, generalLocMatch)
  IN IF generalTestFailureMatch # 0
     THEN LET m == line[generalTestFailureMatch]
          IN located("testFailure", generalTestFailureMatch, m.line - 1, m.col - 1, m.span)
     ELSE IF raiseSyntaxErrorMatch # 0
     THEN LET m == line[raiseSyntaxErrorMatch]
          IN located("raiseSyntaxError", raiseSyntaxErrorMatch, m.line - 1, m.col - 1, -1)
     ELSE IF raiseForgeErrorWithFileNameMatch # 0
     THEN LET m == line[raiseForgeErrorWithFileNameMatch]
          IN located("raiseForgeErrorWithFileName", raiseForgeErrorWithFileNameMatch,
                     m.line - 1, m.col - 1, -1)
     ELSE IF raiseForgeErrorMatch # 0
     THEN LET m == line[raiseForgeErrorMatch]
          IN located("raiseForgeError", raiseForgeErrorMatch, m.line - 1, m.col - 1, -1)
     ELSE IF general = "generalsrcLoc"
     THEN LET m == line[generalsrcLocMatch]
          IN located("generalsrcLoc", generalsrcLocMatch, m.line - 1, m.col - 1, m.span - 1)
     ELSE IF general = "generalLoc"
     THEN LET m == line[generalLocMatch]
          IN located("generalLoc", generalLocMatch, m.line - 1, m.col - 1, m.span - 1)
     ELSE Null

\* texts given to sendEvalErrors, as their lines
TextLines ==
  { <<>>, <<OTHER_TEXT>>, <<OTHER_TEXT, OTHER_TEXT>>,
    <<fragment("loc", 2, 1, 2)>>, <<OTHER_TEXT, fragment("syntaxError", 1, 2, 0)>> }
Texts == {<<a>> : a \in TextLines} \cup {<<a, b>> : a \in TextLines, b \in TextLines}

\* (a filter that keeps null)
NullToo(x) == TRUE

\* (x) => x != null
NotNull(x) == x # Null

\* sendEvalErrors: the diagnostics set for the file, and the position the file
\* is shown at ("none": opened without a position)
sendEvalErrors(text) ==
  LET errorList == SelectSeq([i \in DOMAIN text |-> matchForgeError(text[i])], NotNull)
      diagnostics == [i \in DOMAIN errorList |->
                        [line |-> errorList[i].linenum, col |-> errorList[i].colnum,
                         endCol |-> errorList[i].colnum + errorList[i].span]]
  IN [diagnostics |-> diagnostics,
      shownAt |-> IF Len(errorList) > 0
                  THEN <<errorList[1].linenum, errorList[1].colnum>>
                  ELSE <<"none">>]

MatchForgeError ==
  /\ app.f = "matchForgeError" /\ app.pc = "called"
  /\ Return1(matchForgeError(app.line))

SendEvalErrors ==
  /\ app.f = "sendEvalErrors" /\ app.pc = "called"
  /\ Return1(sendEvalErrors(app.text))

NextClassifier ==
  \/ MatchForgeError
  \/ SendEvalErrors

InitClassifier ==
  /\ Idle
  /\ app \in {[f |-> "matchForgeError", pc |-> "called", line |-> l, out |-> Null] : l \in Lines}
               \cup {[f |-> "sendEvalErrors", pc |-> "called", text |-> t, out |-> Null] : t \in Texts}

SpecClassifier == InitClassifier /\ [][NextClassifier]_vars

----------------------------------------------------------------------------
\* isConsistent, on texts given piece by piece: a line is a sequence of
\* pieces, each the warning marker, white space or other text.

MaxPieces == 2
MARKER == "Warning:"
SPACE == " "
Pieces == {MARKER, SPACE, "x"}
PieceLines == SeqsUpTo(Pieces, MaxPieces)

\* w_o.split("\n"): one line at least
SplitTexts == {<<a>> : a \in PieceLines} \cup {<<a, b>> : a \in PieceLines, b \in PieceLines}

\* (a test for the marker anywhere in the line)
includes(line, prefix) == \E i \in DOMAIN line : line[i] = prefix

\* line.startsWith(prefix)
startsWith(line, prefix) == line # <<>> /\ Head(line) = prefix

\* lines.join('')
RECURSIVE join(_)
join(lines) == IF lines = <<>> THEN <<>> ELSE Head(lines) \o join(Tail(lines))

\* s.trim()
RECURSIVE trimStart(_)
trimStart(s) == IF s # <<>> /\ Head(s) = SPACE THEN trimStart(Tail(s)) ELSE s

RECURSIVE trimEnd(_)
trimEnd(s) ==
  IF s # <<>> /\ s[Len(s)] = SPACE THEN trimEnd(SubSeq(s, 1, Len(s) - 1)) ELSE s

trim(s) == trimEnd(trimStart(s))

\* isConsistent(w_o), statement by statement
isConsistentOf(lines) ==
  LET NoWarning(line) == ~startsWith(line, MARKER)
      filteredLines == SelectSeq(lines, NoWarning)
  IN Len(trim(join(filteredLines))) = 0

IsConsistent ==
  /\ app.f = "isConsistent" /\ app.pc = "called"
  /\ Return1(isConsistentOf(app.lines))

InitConsistent ==
  /\ Idle
  /\ app \in {[f |-> "isConsistent", pc |-> "called", lines |-> t, out |-> FALSE] : t \in SplitTexts}

SpecConsistent == InitConsistent /\ [][IsConsistent]_vars

----------------------------------------------------------------------------
\* The two resolvers from the failing names to the candidates, given the
\* names and the hint table.

MaxNames == 2
TestNames == {"g1", "g2", "g3", "toString"}
NameLists == SeqsUpTo(TestNames, MaxNames)
Tables == HintMaps \cup { <<[name |-> "g2", hint |-> "h2"], [name |-> "g1", hint |-> "h1"]>> }

\* ag_output: the grading run's diagnostic text, one line for each report of a
\* failing test
failedLine(name) ==
  CASE name = "g1" -> "Failed test g1"
    [] name = "g2" -> "Failed test g2"
    [] name = "g3" -> "Failed test g3"
    [] name = "toString" -> "Failed test toString"
diagnosticText(names) == [i \in DOMAIN names |-> failedLine(names[i])]

\* tryGetFailingHintsFromAutograderOutput from tNames on: the candidates, and
\* whether the error message was shown
FailingHints ==
  /\ app.f = "failingHints" /\ app.pc = "called"
  /\ Return1([hints |-> failingHints(app.tNames, app.hint_map),
              warned |-> hasIssues(app.tNames, app.hint_map),
              selected |-> presentNames(app.tNames, app.hint_map)])

\* tryGetPassingHintsFromAutograderOutput from failed_tests on
PassingHints ==
  /\ app.f = "passingHints" /\ app.pc = "called"
  /\ Return1([hints |-> passingHints(app.tNames, app.hint_map), warned |-> FALSE,
              selected |-> LET missing == missingTests(app.tNames, app.hint_map)
                           IN [i \in DOMAIN missing |-> missing[i].name]])

NextResolvers ==
  \/ FailingHints
  \/ PassingHints

InitResolvers ==
  /\ Idle
  /\ app \in {[f |-> f, pc |-> "called", ag_output |-> diagnosticText(n),
               tNames |-> FailingNames(diagnosticText(n)), hint_map |-> t,
               out |-> [hints |-> <<>>, warned |-> FALSE, selected |-> <<>>]]
                : f \in {"failingHints", "passingHints"}, n \in NameLists, t \in Tables}

SpecResolvers == InitResolvers /\ [][NextResolvers]_vars


----------------------------------------------------------------------------
\* C1: in every reachable state at most one evaluator process started through
\* the gateway is still running.
AtMostOneRunning == Cardinality({p \in Runs : Alive(p)}) <= 1

\* C2: chunks and the exit event of a process are delivered only to the
\* listeners, accumulators and promise of the run that spawned it, never to
\* those of another (newer) run.
NoCrossAttribution ==
  \A r \in Runs :
    /\ \A s \in Streams : \A i \in DOMAIN run[r].out[s] : run[r].out[s][i].from = r
    /\ run[r].settledBy \in {0, r}

\* C2, its case: a chunk of a superseded process arrives while the process of
\* a newer, still pending run is the tracked one.
SupersededChunkDelivered ==
  \E r \in Runs, s \in Streams :
    \E i \in DOMAIN run[r].out[s] :
      LET c == run[r].out[s][i]
      IN /\ c.from = r
         /\ c.during \notin {0, r}
         /\ c.during > r
         /\ run[c.during].promise = "pending"

\* C3: the promise of runFile is settled once its process has exited, however
\* the process came to exit.
PromiseSettlesOnExit ==
  \A p \in Runs : proc[p].life = "done" => run[p].promise \in {"resolved", "rejected"}

\* C4: a run abandoned by the timeout wrapper is terminated by the next run
\* started through the gateway: once a later process has been spawned and the
\* grace period of the abandoned one is over, the abandoned process runs no more.
AbandonedRunIsTerminated ==
  \A r \in Runs :
    ( /\ run[r].wrapper = "sentinel" /\ run[r].abandoned
      /\ \E q \in Runs : q > r /\ proc[q].life # "none"
      /\ proc[r].graceTimer # "armed" )
    => ~Alive(r)

\* C5: the temporary file of a runTestsAgainstModel invocation is gone once the
\* invocation's process has ended (or was never started), on every path.
TempFileDeletedOnExit ==
  \A r \in Runs :
    run[r].kind = "hint" /\ proc[r].life # "running" => run[r].tempFile # "exists"

\* C6: a process that has not exited when the grace period after SIGTERM
\* elapses has been sent SIGKILL.
GraceEscalates ==
  \A p \in Runs :
    proc[p].graceTimer = "fired" /\ proc[p].life = "running" => "SIGKILL" \in proc[p].signals

\* C7: for a forge.runFile run whose process has ended, the exit listener has
\* rendered the cause: 'Forge process terminated.' after a manual stop,
\* 'Finished running.' after a natural exit with empty stderr.
ExitListenerRendersCause ==
  \A r \in Runs :
    run[r].kind = "cmd" /\ proc[r].life = "done" =>
      /\ proc[r].killedBy = "manual" => run[r].shown = TERMINATED
      /\ proc[r].killedBy = "none" /\ run[r].out["stderr"] = <<>> => run[r].shown = FINISHED

\* C8: whenever the 'exit' handler of a run is called, exit code 0 or 1 resolves
\* the promise without error and any other code surfaces an error and rejects
\* it, with or without an exit listener.
ExitCodeContract ==
  [][ \A p \in Runs, code \in Codes :
        (ExitEvent(p, code) /\ proc[p].exitAttached) =>
          IF code \in {"0", "1"}
          THEN run'[p].promise = "resolved" /\ EXIT_CODE_ERROR \notin run'[p].notices
          ELSE run'[p].promise = "rejected" /\ EXIT_CODE_ERROR \in run'[p].notices ]_vars

\* C9: no exception escapes generateHints: a failure in mutant construction,
\* mutation, evaluation or hint resolution never makes its promise reject.
NoExceptionEscapes ==
  req.pc = "rejected" =>
    req.failure \notin {"construct", "mutate", "asString", "evaluate"}

\* C10 as stated: when the fetch of the wheat returns 404, the response of the
\* request is the 'not enabled' message and no evaluator run is attempted.
NotEnabledIsTheResponse ==
  req.wheat = "404" =>
    /\ req.pc = "done"
    /\ req.response.hints = <<NOT_ENABLED_MESSAGE>>
    /\ req.runs = 0

\* C10, amended: when the fetch of the wheat returns 404, the 'not enabled'
\* message is shown as an error notification (and no other), generateHints
\* returns the empty string, and no evaluator run is attempted.
NotEnabledIsShown ==
  req.wheat = "404" =>
    /\ req.pc = "done"
    /\ req.response = Response("empty", <<>>)
    /\ req.shown = {NOT_ENABLED_MESSAGE}
    /\ req.runs = 0

\* C10, its case: a request whose wheat fetch returned 404 has ended.
WheatNotEnabled == req.wheat = "404" /\ req.pc = "done" /\ req.fetches = 1

\* C11: a transport error on an artifact fetch aborts the request: no
\* evaluator run and no hint lookup follows a failed fetch.
FailedFetchAborts == ~req.afterFailure

\* C12: when the evaluation of a mutant times out, the resolver (either
\* variant) returns the one-element list holding the timeout marker and issues
\* no fetch of the hint table for that run.
TimeoutShortCircuits ==
  [][ (req.pc = "awaitEval" /\ req'.ag = "timeout") =>
        /\ req'.returned = <<TIMEOUT_MESSAGE>>
        /\ req'.tables = req.tables
        /\ req'.pc # "awaitHintMap" ]_vars

\* C12, its case: the evaluation of a coverage-hint call has timed out, in a
\* request that had fetched the hint table for an earlier evaluation.
ResolverTimedOut ==
  /\ req.ag = "timeout"
  /\ req.variant = "pass"
  /\ req.returned = <<TIMEOUT_MESSAGE>>
  /\ req.tables > 0

\* the response holds the hint h (as one of its hints, or in one of its blocks)
responseHolds(h) ==
  \/ IsIn(h, req.response.hints)
  \/ \E i \in DOMAIN req.response.blocks : IsIn(h, req.response.blocks[i].hints)

\* C13: when a resolver call of a request returned the timeout marker (and
\* nothing threw), the response of the request holds the timeout marker.
TimeoutPropagates ==
  (req.pc = "done" /\ req.timedOut /\ req.failure = "none") => responseHolds(TIMEOUT_MESSAGE)

\* the first run of the request has settled with a RunResult
firstRunDone ==
  /\ req.runs >= 1
  /\ req.pc # "awaitRun1"
  /\ ~(req.pc = "rejected" /\ req.failure = "evaluate" /\ req.who = "none")

\* the first run's standard error holds nothing but warning lines and white space
firstRunClean ==
  firstRunDone /\ \A i \in DOMAIN req.w_o : req.w_o[i] \in {WARNING_LINE, BLANK_LINE}

calledMutateToFailingTests ==
  \E i \in DOMAIN req.mutators : IsIn("mutateToFailingTests", req.mutators[i].ops)

\* C14: when the first run's standard error is consistent, mutateToFailingTests
\* is never called; with thoroughness Off the response is the consistency
\* message and no further evaluator run happens; otherwise the thoroughness
\* analysis is run and what it gives is the response.
ConsistentRunRouting ==
  firstRunClean =>
    /\ ~calledMutateToFailingTests
    /\ req.thoroughness = "Off" =>
         /\ req.pc = "done"
         /\ req.response = Response("consistent", <<CONSISTENCY_MESSAGE>>)
         /\ req.runs = 1
    /\ req.thoroughness # "Off" =>
         /\ req.who = "thor" \/ req.pc = "rejected"
         /\ req.pc = "done" =>
              req.response \in generateThoroughnessFeedbackFromCandidates(
                IF Len(req.results) = 3
                THEN thoroughnessDifference(req.results[1], req.results[2], req.results[3])
                ELSE <<SOMETHING_WENT_WRONG>>)

\* C14, its case: after a first run with warnings only, the thoroughness
\* analysis has run its three resolutions and a hint of the table is the response.
ConsistentRunAnalysed ==
  /\ firstRunClean /\ req.w_o # <<>>
  /\ req.pc = "done"
  /\ Len(req.results) = 3
  /\ req.response.kind = "thoroughness"
  /\ req.response.hints = <<"h2">>

\* the lines of the first run's standard error that name a failing test
namedLines == {j \in DOMAIN req.w_o : TestName(req.w_o[j]) # ""}

\* the names in a list, each once, in the order of their first occurrence
RECURSIVE firstOccurrences(_)
firstOccurrences(names) ==
  IF names = <<>> THEN <<>>
  ELSE LET earlier == firstOccurrences(SubSeq(names, 1, Len(names) - 1))
           last == names[Len(names)]
       IN IF IsIn(last, earlier) THEN earlier ELSE Append(earlier, last)

\* C15: in the Per Test strategy every mutator is built with cap 1 for one
\* diagnostic line that names a failing test, one per such line in their
\* order, each followed by a resolver call of its own; a composite response
\* has one block per named test, keyed by the name (a single line naming t1
\* gives the single block t1).
PerTestBlocks ==
  (firstRunDone /\ req.strategy = "Per Test" /\ namedLines # {}) =>
    /\ \A i \in DOMAIN req.mutators :
         LET m == req.mutators[i]
         IN IsIn("mutateToFailingTests", m.ops) =>
              /\ m.cap = 1 /\ m.line \in namedLines /\ m.ops = <<"mutateToFailingTests">>
              /\ Cardinality({j \in namedLines : j < m.line}) = i - 1
    /\ req.who = "perTest" /\ req.pc # "done" =>
         req.calls = Len(req.mutators)
    /\ req.response.kind = "composite" =>
         /\ Len(req.mutators) = Cardinality(namedLines)
         /\ req.calls = Cardinality(namedLines)
         /\ [i \in DOMAIN req.response.blocks |-> req.response.blocks[i].test]
              = firstOccurrences(FailingNames(req.w_o))

\* C15, its case: two lines name t2 and t1; the composite response has the
\* block of t2 and the block of t1, each with the hint resolved for it.
PerTestTwoBlocks ==
  /\ req.pc = "done" /\ req.strategy = "Per Test"
  /\ req.w_o = <<"Failed test t2", "Failed test t1">>
  /\ req.response.kind = "composite"
  /\ req.response.blocks = <<[test |-> "t2", hints |-> <<"h1">>], [test |-> "t1", hints |-> <<"h2">>]>>

\* no test of the Per Test strategy got a hint
noConcreteHint == \A i \in DOMAIN req.per_test_hints : req.per_test_hints[i].hints = <<>>

\* C16: in the Per Test strategy a test resolved to no hints is logged as
\* ambiguous and its block carries the ambiguity message; the request goes on
\* to the thoroughness analysis if and only if no test got a hint and
\* thoroughness is enabled, and otherwise responds with the composite.
PerTestAmbiguity ==
  (firstRunDone /\ req.strategy = "Per Test" /\ namedLines # {}) =>
    LET pth == req.per_test_hints
        empty == {i \in DOMAIN pth : pth[i].hints = <<>>}
    IN /\ req.who = "thor" =>
            /\ noConcreteHint /\ req.thoroughness # "Off"
            /\ req.ambiguous = Len(pth)
       /\ req.response.kind = "composite" =>
            /\ ~(noConcreteHint /\ req.thoroughness # "Off")
            /\ req.ambiguous = Cardinality(empty)
            /\ Len(req.response.blocks) = Len(pth)
            /\ \A i \in DOMAIN pth :
                 /\ req.response.blocks[i].test = pth[i].test
                 /\ (i \in empty) <=> (req.response.blocks[i].hints = <<AMBIGUOUS_TEST_MESSAGE>>)
       /\ (req.pc = "done" /\ req.failure = "none") =>
            /\ req.response.kind \in {"composite", "thoroughness"}
            /\ (req.response.kind = "thoroughness") <=> (noConcreteHint /\ req.thoroughness # "Off")

\* C16, its case: thoroughness is enabled, t1 was resolved to no hints and t2
\* to a hint; the response is the composite, with the ambiguity message for t1.
PerTestOneAmbiguous ==
  /\ req.pc = "done" /\ req.strategy = "Per Test" /\ req.thoroughness = "On"
  /\ req.ambiguous = 1
  /\ req.response.kind = "composite"
  /\ req.response.blocks = <<[test |-> "t1", hints |-> <<AMBIGUOUS_TEST_MESSAGE>>],
                             [test |-> "t2", hints |-> <<"h1">>]>>

\* mutateToFailingTests calls made on mutators without a cap (the whole suite)
suiteMutations ==
  Cardinality({i \in DOMAIN req.mutators :
                 req.mutators[i].cap = 0 /\ IsIn("mutateToFailingTests", req.mutators[i].ops)})

\* generateThoroughnessFeedback was called
thoroughnessCalled ==
  \/ \E i \in DOMAIN req.mutators : IsIn("mutateToExcludeInclusionTests", req.mutators[i].ops)
  \/ req.pc = "done" /\ req.failure = "construct" /\ req.reconciled = "none"

\* the Comprehensive strategy was chosen for the request
comprehensiveChosen == firstRunDone /\ ~firstRunClean /\ req.strategy = "Comprehensive"

\* C17, as stated: the Comprehensive strategy makes one mutateToFailingTests call
\* over the whole suite and then at most one call of the hint resolver; when the
\* mutation reconciles no test the resolver is not called and the thoroughness
\* analysis runs instead.
ComprehensiveThenThoroughness ==
  comprehensiveChosen =>
    /\ suiteMutations <= 1
    /\ req.reconciled # "unknown" => suiteMutations = 1
    /\ req.failCalls <= 1
    /\ req.failCalls = 1 => req.reconciled = "some"
    /\ req.reconciled = "none" => (req.failCalls = 0 /\ thoroughnessCalled)

\* C17, amended: as above, but when the mutation reconciles no test the
\* thoroughness analysis runs only if thoroughness feedback is enabled; with
\* thoroughness "Off" the request responds without any resolver call.
ComprehensiveOneMutation ==
  comprehensiveChosen =>
    /\ suiteMutations <= 1
    /\ req.reconciled # "unknown" => suiteMutations = 1
    /\ req.failCalls <= 1
    /\ req.failCalls = 1 => req.reconciled = "some"
    /\ req.reconciled = "none" =>
         /\ req.failCalls = 0
         /\ thoroughnessCalled <=> req.thoroughness # "Off"
         /\ req.thoroughness = "Off" => (req.pc = "done" /\ req.calls = 0)

\* C17, its case: the mutation reconciled no test, thoroughness is enabled, and
\* the response is the thoroughness analysis without a failing-resolver call.
NothingReconciledAnalysed ==
  /\ comprehensiveChosen /\ req.reconciled = "none" /\ req.thoroughness = "On"
  /\ req.failCalls = 0 /\ req.calls = 3 /\ Len(req.results) = 3
  /\ req.pc = "done" /\ req.failure = "none"
  /\ req.response = Response("thoroughness", <<"h1">>)

\* runComprehensiveStrategy returned no hint, or the ambiguity message alone
noMeaningfulHint == req.reconciled = "none" \/ req.ambiguous > 0

\* C18: in the Comprehensive strategy, when the hint set is empty or holds only
\* the ambiguity message, the response is the result of the thoroughness
\* analysis if thoroughness is enabled, and otherwise the ambiguity or
\* consistency message, never an empty response.
NoMeaningfulHintResponse ==
  (comprehensiveChosen /\ noMeaningfulHint /\ req.pc = "done" /\ req.failure = "none") =>
    IF req.thoroughness # "Off"
    THEN req.response.kind = "thoroughness"
    ELSE /\ req.response.kind # "empty"
         /\ req.response.hints \in {<<AMBIGUOUS_TEST_MESSAGE>>, <<CONSISTENCY_MESSAGE>>}

\* C19: chooseN(candidates, 3) terminates; it returns at most
\* min(3, |candidates|) elements, takes no position of candidates twice, and
\* every element it returns is the element of candidates at the position it
\* was taken from.
ChooseNContract ==
  /\ <>(cn.pc = "returned")
  /\ [](cn.pc = "returned" =>
          /\ Len(cn.randomElements) <= min(MAX_HINT, Len(cn.original))
          /\ Len(cn.randomElements) <= MAX_HINT
          /\ Len(cn.randomElements) <= Len(cn.original)
          /\ Len(cn.picked) = Len(cn.randomElements)
          /\ \A j, k \in DOMAIN cn.picked : j # k => cn.picked[j] # cn.picked[k]
          /\ \A k \in DOMAIN cn.randomElements :
               /\ cn.picked[k] \in DOMAIN cn.original
               /\ cn.randomElements[k] = cn.original[cn.picked[k]])

\* C19, its case: four candidates with repeated values, three of them returned
ChoseThreeOfFour ==
  /\ cn.pc = "returned"
  /\ cn.original = <<"h1", "h2", "h1", "h2">>
  /\ cn.randomElements = <<"h2", "h1", "h1">>
  /\ cn.picked = <<4, 1, 3>>

\* the hints a response surfaces: those of a plain response, and those of the
\* blocks of a composite (the ambiguity message of a block is not a hint)
RECURSIVE blockHints(_)
blockHints(blocks) ==
  IF blocks = <<>> THEN 0
  ELSE (IF Head(blocks).hints = <<AMBIGUOUS_TEST_MESSAGE>> THEN 0 ELSE Len(Head(blocks).hints))
         + blockHints(Tail(blocks))

surfaced == Len(req.response.hints) + blockHints(req.response.blocks)

\* C20: every response of a feedback request surfaces at most MAX_HINT hints,
\* whatever the strategy and however many candidates or failing tests there are.
ResponseCap == req.pc = "done" => surfaced <= MAX_HINT

\* the elements of a list, as a set
elements(list) == {list[i] : i \in DOMAIN list}

\* C21: given the hint lists A, B and C of the three mutants,
\* generateThoroughnessFeedback returns the elements of A that are not in
\* B \ C, in the order they have in A, and the empty list if A is a subset
\* of B \ C.
DifferenceIsSetDifference ==
  (app.f = "difference" /\ app.pc = "returned") =>
    LET covered == elements(app.B) \ elements(app.C)
        Kept(h) == h \notin covered
    IN /\ app.out = SelectSeq(app.A, Kept)
       /\ elements(app.out) = elements(app.A) \ covered
       /\ elements(app.A) \subseteq covered => app.out = <<>>

\* C21, its case: an element of A covered by B alone is dropped, one that C
\* covers too is kept, and A's order is kept
DifferenceTaken ==
  /\ app.f = "difference" /\ app.pc = "returned"
  /\ app.A = <<"h3", "h1">> /\ app.B = <<"h1", "h3">> /\ app.C = <<"h3">>
  /\ app.out = <<"h3">>

\* the grammars, in the order of priority the claim gives them, each with its pattern
Priority ==
  << [grammar |-> "testFailure", pattern |-> testFailurePattern],
     [grammar |-> "raiseSyntaxError", pattern |-> raiseSyntaxErrorPattern],
     [grammar |-> "raiseForgeErrorWithFileName", pattern |-> raiseForgeErrorWithFileNamePattern],
     [grammar |-> "raiseForgeError", pattern |-> raiseForgeErrorPattern],
     [grammar |-> "generalLoc", pattern |-> generalLocPattern],
     [grammar |-> "generalsrcLoc", pattern |-> generalsrcLocPattern] >>

matching(line) == {k \in DOMAIN Priority : found(line, Priority[k].pattern) # {}}

classified == app.f = "matchForgeError" /\ app.pc = "returned"

\* C22: for a line that several of the six grammars match, matchForgeError
\* returns the record of the first of them in the order test failure, syntax
\* error, error with file path, error without file path, "at loc", "(srcloc";
\* it returns null if and only if none matches.
FirstGrammarWins ==
  classified =>
    /\ (app.out = Null) <=> (matching(app.line) = {})
    /\ matching(app.line) # {} =>
         LET k == CHOOSE k \in matching(app.line) : \A j \in matching(app.line) : k <= j
         IN app.out.grammar = Priority[k].grammar

\* the grammars whose pattern has a group for the span
carriesSpan == {"testFailure", "generalLoc", "generalsrcLoc"}

\* C23: for a matched line the returned line and column are the reported ones
\* minus 1, and 0 if the reported one is 1 or less; the returned span is at
\* least 1, is 1 if the reported span is less than 1, and is 1 for a grammar
\* that reports no span.
NormalisedPosition ==
  (classified /\ app.out # Null) =>
    LET m == app.line[app.out.from]
    IN /\ app.out.linenum = (IF m.line <= 1 THEN 0 ELSE m.line - 1)
       /\ app.out.colnum = (IF m.col <= 1 THEN 0 ELSE m.col - 1)
       /\ app.out.span >= 1
       /\ (app.out.grammar \in carriesSpan /\ m.span < 1) => app.out.span = 1
       /\ app.out.grammar \notin carriesSpan => app.out.span = 1

\* C23, its case: "at loc: line 2, col 0, span: 0" gives line 1, column 0, span 1
LocNormalised ==
  /\ classified
  /\ app.line = <<OTHER_TEXT, fragment("loc", 2, 0, 0)>>
  /\ app.out = [grammar |-> "generalLoc", from |-> 2, linenum |-> 1, colnum |-> 0, span |-> 1]

\* C24: isConsistent(text) is true if and only if every line of the text
\* either begins with the warning marker or holds nothing but white space: so it
\* is true of the empty text and of warning lines alone, and false as soon as
\* there is other content.
ConsistentIffOnlyWarnings ==
  (app.f = "isConsistent" /\ app.pc = "returned") =>
    LET warning(l) == l # <<>> /\ l[1] = MARKER
        blank(l) == \A j \in DOMAIN l : l[j] = SPACE
    IN /\ app.out <=> \A i \in DOMAIN app.lines : warning(app.lines[i]) \/ blank(app.lines[i])
       /\ app.lines = << <<>> >> => app.out
       /\ (\A i \in DOMAIN app.lines : warning(app.lines[i])) => app.out

\* C24, its case: a warning line, and a line with the marker after white space
\* (not a warning line): not consistent
IndentedWarningCounts ==
  /\ app.f = "isConsistent" /\ app.pc = "returned"
  /\ app.lines = << <<MARKER, "x">>, <<SPACE, MARKER>> >>
  /\ app.out = FALSE

\* the request is suspended on a fetch or on an evaluation
suspended == req.pc \in {"awaitWheat", "awaitRun1", "awaitGrader", "awaitEval", "awaitHintMap"}

\* C25: within a request the fetches and the evaluations are issued one after
\* the other: none is issued before the one before it has settled, in both
\* strategies and in the thoroughness analysis, whose resolutions come in the
\* order inclusion, exclusion, vacuous.
OneAtATime ==
  /\ req.pending <= 1
  /\ req.pending = (IF suspended THEN 1 ELSE 0)
  /\ (req.who = "thor" /\ suspended) =>
       /\ req.phase \in 1 .. 3
       /\ Len(req.results) = req.phase - 1
  /\ req.who = "perTest" => Len(req.per_test_hints) < req.calls \/ ~suspended

\* C25, its case: the vacuous mutant's evaluation is the one in progress, the
\* two resolutions before it have returned
ThirdResolutionAlone ==
  /\ req.who = "thor" /\ req.phase = 3 /\ req.pc = "awaitEval"
  /\ Len(req.results) = 2 /\ req.pending = 1
  /\ req.fetches >= 7 /\ req.runs >= 4

\* the entry a hint table has for a name
entryOf(name, table) == table[CHOOSE i \in DOMAIN table : table[i].name = name]
inTable(name, table) == \E i \in DOMAIN table : table[i].name = name

\* C26: the failure-hint resolver returns the hints of the failing names the
\* table has an entry for, in the order of the failing names; a failing name
\* without an entry is reported with a warning and left out, and the other
\* names are still resolved.
FailingNamesResolved ==
  (app.f = "failingHints" /\ app.pc = "returned") =>
    LET Present(n) == inTable(n, app.hint_map)
        present == SelectSeq(app.tNames, Present)
    IN /\ app.out.hints = [i \in DOMAIN present |-> entryOf(present[i], app.hint_map).hint]
       /\ app.out.warned <=> \E k \in DOMAIN app.tNames : ~Present(app.tNames[k])

occurrences(list, x) == Cardinality({i \in DOMAIN list : list[i] = x})
NoDuplicatesBeyondTable ==
  (app.f \in {"failingHints", "passingHints"} /\ app.pc = "returned") =>
    \A h \in elements(app.out.hints) :
      occurrences(app.out.hints, h) > 1 =>
        /\ Cardinality({i \in DOMAIN app.hint_map : app.hint_map[i].hint = h}) > 1
        /\ occurrences(app.out.hints, h)
             <= Cardinality({i \in DOMAIN app.hint_map : app.hint_map[i].hint = h})

\* C29: every ConceptualMutator built during a request has at most one
\* mutation operation called on it: the whole-suite mutateToFailingTests is
\* called on one instance, the Per Test strategy builds an instance of its
\* own for each failing line, and the thoroughness analysis builds three
\* instances and calls mutateToExcludeInclusionTests,
\* mutatefromExclusionTestIntersection and mutateToVaccuity on one each.
ThoroughnessOps ==
  <<"mutateToExcludeInclusionTests", "mutatefromExclusionTestIntersection", "mutateToVaccuity">>
instancesWith(op) == {i \in DOMAIN req.mutators : IsIn(op, req.mutators[i].ops)}
OneMutationPerInstance ==
  /\ \A i \in DOMAIN req.mutators : Len(req.mutators[i].ops) <= 1
  /\ Cardinality({i \in instancesWith("mutateToFailingTests") : req.mutators[i].cap = 0}) <= 1
  /\ \A i, j \in instancesWith("mutateToFailingTests") :
       (req.mutators[i].cap = 1 /\ req.mutators[j].cap = 1 /\ i # j)
         => req.mutators[i].line # req.mutators[j].line
  /\ \A k \in DOMAIN ThoroughnessOps : Cardinality(instancesWith(ThoroughnessOps[k])) <= 1
  /\ req.phase >= 1 =>
       LET n == Len(req.mutators)
       IN /\ n >= 3
          /\ \A k \in DOMAIN ThoroughnessOps :
               /\ req.mutators[n - 3 + k].ops = <<ThoroughnessOps[k]>>
               /\ req.mutators[n - 3 + k].cap = 0

\* C29, its case: two failing lines resolved one by one without a concrete
\* hint, then the thoroughness analysis to its end: five instances
FiveInstances ==
  /\ req.strategy = "Per Test" /\ req.pc = "done"
  /\ Len(req.mutators) = 5 /\ req.phase = 3
  /\ req.response.kind = "thoroughness"

\* a line in which none of the six grammars finds a match
unmatched(line) == \A i \in DOMAIN line : line[i] = OTHER_TEXT

\* C30: for a line that matches none of the six grammars matchForgeError
\* returns null, and for a text made of such lines only sendEvalErrors sets
\* an empty list of diagnostics and opens the file without a position.
UnmatchedYieldsNothing ==
  /\ (classified /\ unmatched(app.line)) => app.out = Null
  /\ (app.f = "sendEvalErrors" /\ app.pc = "returned"
        /\ \A i \in DOMAIN app.text : unmatched(app.text[i])) =>
       /\ app.out.diagnostics = <<>>
       /\ app.out.shownAt = <<"none">>

\* C30, its case: a text of a line of other text and an empty line
NothingLocated ==
  /\ app.f = "sendEvalErrors" /\ app.pc = "returned"
  /\ app.text = << <<OTHER_TEXT, OTHER_TEXT>>, <<>> >>
  /\ app.out.diagnostics = <<>>

\* C31: once the promise of a hint run has resolved on the 'exit' event and
\* the caller holds the RunResult, no further chunk of standard error is
\* added to it: the text the caller reads is all the process emitted.
StderrCompleteAtExit ==
  [][\A r \in Runs :
       (run[r].kind = "hint" /\ run[r].promise = "resolved" /\ run[r].wrapper = "result")
         => run'[r].out["stderr"] = run[r].out["stderr"]]_vars

\* C32: the promise of runTestsAgainstModelWithTimeout settles once, with
\* whichever of the run and the timer comes first: settled by the run, the
\* timer is cleared and the timeout message is not shown for the run;
\* settled by the timer, it keeps the sentinel when the run ends later.
WrapperSettlesOnce ==
  [][\A r \in Runs :
       LET a == run[r]
           b == run'[r]
       IN /\ a.wrapper \notin {"none", "pending"} => b.wrapper = a.wrapper
          /\ (a.wrapper = "pending" /\ b.wrapper = "sentinel")
               => (a.timer = "armed" /\ b.timer = "fired")
          /\ b.wrapper \in {"result", "rejected"}
               => (b.timer = "cleared" /\ TIMEOUT_MESSAGE \notin b.notices)
          /\ b.wrapper = "sentinel" => TIMEOUT_MESSAGE \in b.notices]_vars

\* C32, its case: the timer fired first and the run ended afterwards
RunEndedAfterTimeout ==
  \E r \in Runs :
    /\ run[r].wrapper = "sentinel" /\ run[r].timer = "fired"
    /\ run[r].promise \in {"resolved", "rejected"} /\ run[r].settledBy = r
    /\ run[r].tempFile = "deleted"

\* C33: with the timers firing, every call of
\* runTestsAgainstModelWithTimeout settles, also when the process it started
\* never exits or its exit is never reported because another command has
\* taken the process over or stopped it.
WrapperEventuallySettles ==
  \A r \in Runs : (run[r].wrapper = "pending") ~> (run[r].wrapper # "pending")

\* C33, its case: the run's process was stopped by a command, its exit is not
\* reported, and the wrapper has settled with the sentinel
SettledWithoutExit ==
  \E r \in Runs :
    /\ run[r].kind = "hint" /\ run[r].promise = "pending"
    /\ proc[r].life # "none" /\ ~proc[r].exitAttached
    /\ proc[r].killedBy = "manual"
    /\ run[r].wrapper = "sentinel"

\* C33, for the request: it starts at most one first run, one evaluation per
\* line of the first run's standard error and three for the thoroughness
\* analysis, and, its fetches and evaluations settling, it settles.
FinitelyManyRuns == req.runs <= 1 + MaxLines + 3
RequestEventuallySettles == (req.pc # "idle") ~> (req.pc \in {"done", "rejected"})

\* C34: when the standard error of the first run is not consistent and names
\* no failing test (an error of the run, or the timeout sentinel), the
\* response is the runtime-or-syntax-error message with that text in it, no
\* mutator has been constructed, and no evaluation or fetch follows the first
\* run.
NoTestFoundStops ==
  (firstRunDone /\ ~isConsistent(req.w_o) /\ FailingNames(req.w_o) = <<>>) =>
    /\ req.pc = "done"
    /\ req.response.kind = "noTestFound"
    /\ req.response.hints = <<NO_TEST_FOUND>> /\ req.response.embeds = req.w_o
    /\ req.mutators = <<>>
    /\ req.runs = 1 /\ req.fetches = 1 /\ req.calls = 0 /\ req.pending = 0

\* C34, its case: the first run timed out
FirstRunTimedOut ==
  /\ req.pc = "done" /\ req.w_o = <<TIMEOUT_MESSAGE>>
  /\ req.response.kind = "noTestFound" /\ req.runs = 1

\* C35: the callback of the grace timer sends SIGKILL to no process but the
\* one that the kill which set the timer had signalled; the process of a
\* newer run never receives it, whatever process ids the system hands out.
GraceKillsOnlyItsOwn ==
  [][\A q \in Runs :
       ("SIGKILL" \in proc'[q].signals /\ "SIGKILL" \notin proc[q].signals)
         => /\ "SIGTERM" \in proc[q].signals
            /\ proc[q].graceTimer = "armed" /\ proc'[q].graceTimer = "fired"]_vars

\* C36: when the 'exit' event of a process that the handle does not track is
\* emitted, the handle keeps its value and the process it tracks keeps its
\* listeners; the handle is cleared by an exit only if the exit is that of
\* the tracked process.
ExitOfUntrackedIsInert ==
  [][\A p \in Runs :
       (proc[p].life = "running" /\ proc'[p].life = "done" /\ childProcess # p)
         => /\ childProcess' = childProcess
            /\ childProcess # 0 =>
                 proc'[childProcess].exitAttached = proc[childProcess].exitAttached]_vars

\* C37: a step that starts and ends with no process tracked (a kill, with
\* either argument, among them) leaves racketKilledManually as it was, sends
\* no signal and arms no timer; and whenever runFile has just spawned a
\* process racketKilledManually is false.
KillWithoutProcessIsNoOp ==
  [][/\ (childProcess = 0 /\ childProcess' = 0) =>
          /\ racketKilledManually' = racketKilledManually
          /\ \A q \in Runs :
               /\ proc'[q].signals = proc[q].signals
               /\ proc'[q].graceTimer = "armed" => proc[q].graceTimer = "armed"
     /\ (childProcess' # 0 /\ childProcess' # childProcess) => ~racketKilledManually']_vars

\* C37, its case: after forge.stopRun the deactivation calls kill(false) with
\* no process tracked, and the flag still says manual
KilledNothing ==
  /\ ~activated /\ childProcess = 0 /\ racketKilledManually
  /\ \E p \in Runs : proc[p].killedBy = "manual"
  /\ \A p \in Runs : proc[p].killedBy # "auto"

\* C38: when chooseN(arr, n) has returned, the returned elements and the
\* elements left in arr are together a rearrangement of the list arr was at
\* the call, and arr is shorter by min(n, its length at the call).
ChooseNRemovesTheChosen ==
  cn.pc = "returned" =>
    /\ \A x \in elements(cn.original) \cup elements(cn.arr) \cup elements(cn.randomElements) :
         occurrences(cn.randomElements, x) + occurrences(cn.arr, x)
           = occurrences(cn.original, x)
    /\ Len(cn.arr) = Len(cn.original) - min(cn.n, Len(cn.original))
    /\ \A k \in DOMAIN cn.arr : cn.arr[k] = cn.original[cn.at[k]]

\* C38, its case: of four candidates three are removed and one is left
OneCandidateLeft ==
  /\ cn.pc = "returned"
  /\ cn.original = <<"h1", "h2", "h1", "h2">>
  /\ cn.arr = <<"h2">> /\ cn.at = <<2>>
  /\ cn.randomElements = <<"h1", "h2", "h1">>

====
